---- MODULE Spec2Model ----
(***************************************************************************)
(* The CDC consumer of cdc-pipeline/consumer.py: CDCConsumer.run and the   *)
(* methods it calls, as a state machine.  One action per statement of the  *)
(* run loop at which the shutdown signal can be observed to interleave.    *)
(***************************************************************************)
EXTENDS Integers, Sequences, FiniteSets, TLC

(* ------------------------------ bounds -------------------------------- *)
\* records ever appended to the two topics together
MaxLog == 3
\* rows buffered or written in a run that follows the records' fields
MaxRows == 3
MaxEvents == 2
MaxBatches == 9
MaxRequests == 5

(* ------------------------- program constants -------------------------- *)
TOPIC_ACCESS_EVENT == "cg.cloudgate.cg_access_event"
TOPIC_CONNECTOR_HEALTH == "cg.cloudgate.cg_connector_health"
Topics == {TOPIC_ACCESS_EVENT, TOPIC_CONNECTOR_HEALTH}

\* consumer.py:30 sets 5000; the model scales the ceiling down so that the
\* buffers can reach and pass it within MaxLog records per topic.
MAX_BUFFER_SIZE == 2
\* run(): max_retries
max_retries == 10
\* run(): retry_delay, in seconds
retry_delay == 5
\* connect_kafka(): consumer_timeout_ms
consumer_timeout_ms == 1000

\* clock resolution: one tick is half a second
MsPerTick == 1000 \div 2
PollTimeout == consumer_timeout_ms \div MsPerTick
Ticks(seconds) == (seconds * 1000) \div MsPerTick

\* config.py: the three consumer settings are read from the environment; the
\* model runs the consumer under each of these settings.  Under the second one
\* a batch of access events is more than one row and no more than the ceiling.
Configs ==
  { [flush_interval_seconds |-> 1, max_batch_events |-> 1, max_batch_health |-> 3],
    [flush_interval_seconds |-> 2, max_batch_events |-> 2, max_batch_health |-> 1] }

\* What a topic can hold, by the path process_message takes on it:
\*   "row"       an object with every required field and op absent or c/u/r
\*   "delete"    an object whose op marker is d, and likewise every value that
\*               process_message returns on without buffering (KindOf below)
\*   "nonobject" a JSON value that is not an object and not empty
Kinds == {"row", "delete", "nonobject"}

None == "None"
\* the loop variable `message` while it holds no record to process
NoMessage == [topic |-> None, offset |-> 0]

VARIABLES
  pc,                      \* position of run()
  running,                 \* self.running
  attempt,                 \* the connection loop's attempt
  slept,                   \* seconds the connection loop has slept
  clickhouse_client,       \* TRUE once self.clickhouse_client is set
  closed,                  \* consumer.close() was called
  event_buffer,            \* self.event_buffer: offsets of the buffered rows
  health_buffer,           \* self.health_buffer
  elapsed,                 \* time.time() - self.last_flush_time, in ticks, counted
                           \* up to the flush interval
  total_events_processed,
  total_health_processed,
  config,                  \* the Config instance
  pollLeft,                \* ticks until the iterator's _consumer_timeout (0 outside
                           \* the iterator)
  log,                     \* the two topics
  position,                \* the consumer's position per topic
  committed,               \* the group's committed offset per topic
  message,                 \* the loop variable `message`, until it was processed
  store,                   \* rows present in the two ClickHouse tables
  written,                 \* this run's successful inserts per table, concatenated
  lastInserts,             \* the insert calls of the flush_to_clickhouse() just made
  lastCall,                \* the latest call made by run()
  failed,                  \* how the latest flush_to_clickhouse() of this run ended:
                           \* "no" (it returned True, or none was made),
                           \* "nothing_written" or "events_written" (it returned False)
  quietFor,                \* ticks since a row was buffered into empty buffers, while
                           \* nothing was delivered and no flush made since (-1: no)
  \* mapping.py, called on its own
  mapPc,                   \* "off", "call", "again", "end"
  mapper,                  \* the function called
  mapArg,                  \* its argument cdc_record
  mapOut,                  \* how the call ended, and the row it returned
  mapOut2,                 \* the same for the call on the row returned
  \* generator.py: main()
  genPc,                   \* position of main()
  ingest_mode,             \* config.ingest_mode
  writer,                  \* the local `writer`: None or the class constructed
  connected,               \* how the writer's constructor ended
  shutdown_requested,      \* the module's flag
  generated,               \* events made by generate_access_event()
  total_events,
  events_since_health,
  healthIdx,               \* position of `for conn in CONNECTORS`
  writer_calls,            \* write_* calls made, per writer class
  writer_closed,           \* writer.close() was called
  exit_status,             \* the status the process ended with
  \* datagen/trickle_simple.py: main()
  trkPc,                   \* position of main()
  trickle_running,         \* the module's flag `running`
  no_requests,             \* args.no_requests
  batch_count,
  requests,                \* piam.fact_access_requests FINAL, by submitted_at
  pending,                 \* the local `pending`
  reqIdx,                  \* position of `for req in pending[:3]`
  updates,                 \* the local `updates`
  total_requests_new,
  total_requests_updated,
  new_status               \* what the latest update_access_request() returned

vars == << pc, running, attempt, slept, clickhouse_client, closed, event_buffer,
           health_buffer, elapsed, total_events_processed,
           total_health_processed, config, pollLeft, log, position,
           committed, message, store, written, lastInserts, lastCall,
           failed, quietFor, mapPc, mapper, mapArg, mapOut, mapOut2,
           genPc, ingest_mode, writer, connected, shutdown_requested,
           generated, total_events, events_since_health, healthIdx,
           writer_calls, writer_closed, exit_status,
           trkPc, trickle_running, no_requests, batch_count, requests,
           pending, reqIdx, updates, total_requests_new,
           total_requests_updated, new_status >>

mapVars == << mapPc, mapper, mapArg, mapOut, mapOut2 >>

genVars ==
  << genPc, ingest_mode, writer, connected, shutdown_requested, generated,
     total_events, events_since_health, healthIdx, writer_calls,
     writer_closed, exit_status >>

trickleVars ==
  << trkPc, trickle_running, no_requests, batch_count, requests, pending,
     reqIdx, updates, total_requests_new, total_requests_updated,
     new_status >>

\* the variables of the other programs of the repository
otherVars == << mapVars, genVars, trickleVars >>

NotCalled == [status |-> "not_called", row |-> << >>]

\* no call of mapping.py on its own is followed
MapOff ==
  /\ mapPc = "off"
  /\ mapper = "None"
  /\ mapArg = << >>
  /\ mapOut = NotCalled
  /\ mapOut2 = NotCalled

Writers == { "MySQLWriter", "ClickHouseWriter" }

\* the process has not ended
NotExited == -1

\* no generator process is followed
GeneratorOff ==
  /\ genPc = "off"
  /\ ingest_mode = "cdc"
  /\ writer = "None"
  /\ connected = "untried"
  /\ shutdown_requested = FALSE
  /\ generated = 0
  /\ total_events = 0
  /\ events_since_health = 0
  /\ healthIdx = 0
  /\ writer_calls = [w \in Writers |-> << >>]
  /\ writer_closed = FALSE
  /\ exit_status = NotExited

\* no trickle_simple process is followed
TrickleOff ==
  /\ trkPc = "off"
  /\ trickle_running = FALSE
  /\ no_requests = FALSE
  /\ batch_count = 0
  /\ requests = << >>
  /\ pending = << >>
  /\ reqIdx = 0
  /\ updates = 0
  /\ total_requests_new = 0
  /\ total_requests_updated = 0
  /\ new_status = "not_called"

OthersOff == MapOff /\ GeneratorOff /\ TrickleOff

Range(s) == { s[i] : i \in 1..Len(s) }

TableOf(t) == IF t = TOPIC_ACCESS_EVENT THEN "fact_access_events"
              ELSE "fact_connector_health"

(* ------------------------------ __init__ ------------------------------ *)
Init ==
  /\ pc = "connect"
  /\ running = TRUE
  /\ attempt = 0
  /\ slept = 0
  /\ clickhouse_client = FALSE
  /\ closed = FALSE
  /\ event_buffer = << >>
  /\ health_buffer = << >>
  /\ elapsed = 0
  /\ total_events_processed = 0
  /\ total_health_processed = 0
  /\ config \in Configs
  /\ pollLeft = 0
  /\ log = [t \in Topics |-> << >>]
  /\ position = [t \in Topics |-> 0]
  /\ committed = [t \in Topics |-> 0]
  /\ message = NoMessage
  /\ store = [t \in Topics |-> {}]
  /\ written = [t \in Topics |-> << >>]
  /\ lastInserts = << >>
  /\ lastCall = "init"
  /\ failed = "no"
  /\ quietFor = -1
  /\ OthersOff


(* ---------------------------- should_flush ---------------------------- *)
\* consumer.py 128-148, the four tests in the order the code makes them
\* mutant: a batch is flushed once it is larger than the batch size
ShouldFlush_BatchExceeded(eb, hb, el, cfg) ==
  LET total_buffered == Len(eb) + Len(hb)
  IN  IF el >= Ticks(cfg.flush_interval_seconds) THEN TRUE
      ELSE IF Len(eb) > cfg.max_batch_events THEN TRUE
      ELSE IF Len(hb) > cfg.max_batch_health THEN TRUE
      ELSE IF total_buffered > MAX_BUFFER_SIZE THEN TRUE
      ELSE FALSE

\* mutant: the emergency ceiling is not tested
ShouldFlush_NoCeiling(eb, hb, el, cfg) ==
  IF el >= Ticks(cfg.flush_interval_seconds) THEN TRUE
  ELSE IF Len(eb) >= cfg.max_batch_events THEN TRUE
  ELSE IF Len(hb) >= cfg.max_batch_health THEN TRUE
  ELSE FALSE

ShouldFlush(eb, hb, el, cfg) ==
  LET total_buffered == Len(eb) + Len(hb)
  IN  IF el >= Ticks(cfg.flush_interval_seconds) THEN TRUE
      ELSE IF Len(eb) >= cfg.max_batch_events THEN TRUE
      ELSE IF Len(hb) >= cfg.max_batch_health THEN TRUE
      ELSE IF total_buffered >= MAX_BUFFER_SIZE THEN TRUE
      ELSE FALSE

should_flush ==
  ShouldFlush(event_buffer, health_buffer, elapsed, config)

(* ------------------------- flush_to_clickhouse ------------------------ *)
\* evOk, hOk: whether the insert into fact_access_events, fact_connector_health
\* returns (TRUE) or raises (FALSE), when the call is made.

\* the insert calls made, in order, each with its outcome
FlushInserts(eb, hb, client, evOk, hOk) ==
  IF eb = << >> /\ hb = << >> THEN << >>
  ELSE IF ~client THEN << >>
  ELSE (IF eb # << >>
          THEN << [table |-> "fact_access_events", rows |-> eb, ok |-> evOk] >>
          ELSE << >>)
       \o
       (IF (eb = << >> \/ evOk) /\ hb # << >>
          THEN << [table |-> "fact_connector_health", rows |-> hb, ok |-> hOk] >>
          ELSE << >>)

\* mutant: a failed insert of the health rows is not reported
FlushReturn_IgnoresHealthFailure(eb, hb, client, evOk, hOk) ==
  IF eb = << >> /\ hb = << >> THEN TRUE
  ELSE IF ~client THEN FALSE
  ELSE IF eb # << >> /\ ~evOk THEN FALSE
  ELSE TRUE

\* the value returned
FlushReturn(eb, hb, client, evOk, hOk) ==
  IF eb = << >> /\ hb = << >> THEN TRUE
  ELSE IF ~client THEN FALSE
  ELSE IF eb # << >> /\ ~evOk THEN FALSE
  ELSE IF hb # << >> /\ ~hOk THEN FALSE
  ELSE TRUE

\* mutant: the event buffer is cleared only where the call returns True
FlushEventBuffer_ClearedAtEnd(eb, hb, client, evOk, hOk) ==
  IF client /\ eb # << >> /\ evOk /\ (hb = << >> \/ hOk) THEN << >> ELSE eb

\* self.event_buffer when the call ends: cleared right after its insert returned
FlushEventBuffer(eb, hb, client, evOk, hOk) ==
  IF client /\ eb # << >> /\ evOk THEN << >> ELSE eb

\* mutant: the health buffer is cleared before its insert is known to return
FlushHealthBuffer_ClearedEarly(eb, hb, client, evOk, hOk) ==
  IF client /\ (eb = << >> \/ evOk) /\ hb # << >> THEN << >> ELSE hb

\* self.health_buffer when the call ends
FlushHealthBuffer(eb, hb, client, evOk, hOk) ==
  IF client /\ (eb = << >> \/ evOk) /\ hb # << >> /\ hOk THEN << >> ELSE hb

\* mutant: last_flush_time is set on the failure path too
FlushElapsed_ResetOnFailure(ret, el) == 0

\* mutant: last_flush_time is not set when the inserts were made
FlushElapsed_NeverReset(ret, el) == el

\* time since self.last_flush_time when the call ends: last_flush_time is set
\* to time.time() on the two paths that return True
FlushElapsed(ret, el) == IF ret THEN 0 ELSE el

\* rows of the calls into `table` that returned
Inserted(calls, table) ==
  LET ok == SelectSeq(calls, LAMBDA c : c.table = table /\ c.ok)
  IN  IF ok = << >> THEN << >> ELSE ok[1].rows

flush_to_clickhouse(evOk, hOk) ==
  LET calls == FlushInserts(event_buffer, health_buffer, clickhouse_client, evOk, hOk)
      ret   == FlushReturn(event_buffer, health_buffer, clickhouse_client, evOk, hOk)
      eb2   == FlushEventBuffer(event_buffer, health_buffer, clickhouse_client, evOk, hOk)
      hb2   == FlushHealthBuffer(event_buffer, health_buffer, clickhouse_client, evOk, hOk)
  IN  /\ event_buffer' = eb2
      /\ health_buffer' = hb2
      /\ lastInserts' = calls
      /\ store' = [t \in Topics |-> store[t] \cup Range(Inserted(calls, TableOf(t)))]
      /\ written' = [t \in Topics |-> written[t] \o Inserted(calls, TableOf(t))]
      /\ total_events_processed' =
           total_events_processed + Len(Inserted(calls, "fact_access_events"))
      /\ total_health_processed' =
           total_health_processed + Len(Inserted(calls, "fact_connector_health"))
      /\ elapsed' = FlushElapsed(ret, elapsed)
      /\ lastCall' = IF ret THEN "flush_true" ELSE "flush_false"
      /\ failed' = IF ret THEN "no"
                   ELSE IF Inserted(calls, "fact_access_events") # << >>
                     THEN "events_written" ELSE "nothing_written"
      /\ quietFor' = -1

(* --------------------------- process_message -------------------------- *)
\* consumer.py 97-126 on a message of the given kind
ProcessRaises(kind) == kind = "nonobject"

\* mutant: the row is put in front of the buffered ones
ProcessEventBuffer_Prepends(topic, kind, offset, eb) ==
  IF kind = "row" /\ topic = TOPIC_ACCESS_EVENT THEN << offset >> \o eb ELSE eb

ProcessEventBuffer(topic, kind, offset, eb) ==
  IF kind = "row" /\ topic = TOPIC_ACCESS_EVENT THEN Append(eb, offset) ELSE eb

\* mutant: every topic but the access-event one goes to the health buffer
ProcessHealthBuffer_AnyOtherTopic(topic, kind, offset, hb) ==
  IF kind = "row" /\ topic # TOPIC_ACCESS_EVENT THEN Append(hb, offset) ELSE hb

ProcessHealthBuffer(topic, kind, offset, hb) ==
  IF kind = "row" /\ topic = TOPIC_CONNECTOR_HEALTH THEN Append(hb, offset) ELSE hb

process_message(topic, kind, offset) ==
  LET eb2 == ProcessEventBuffer(topic, kind, offset, event_buffer)
      hb2 == ProcessHealthBuffer(topic, kind, offset, health_buffer)
      first == event_buffer = << >> /\ health_buffer = << >>
               /\ (eb2 # << >> \/ hb2 # << >>)
  IN  /\ event_buffer' = eb2
      /\ health_buffer' = hb2
      /\ quietFor' = IF first THEN 0 ELSE quietFor
      /\ lastCall' = "process_message"
      /\ lastInserts' = << >>


(* -------------------------------- run --------------------------------- *)
Terminal == {"done", "exited", "aborted"}

\* variables no step of the loop but a flush or process_message touches
BuffersUnchanged ==
  UNCHANGED << event_buffer, health_buffer, elapsed,
               total_events_processed, total_health_processed, store, written,
               failed, quietFor >>

\* run() makes its next call: `called` becomes the latest call, and the insert
\* calls recorded for the flush before it are dropped
Calls(called) == lastCall' = called /\ lastInserts' = << >>

NoCall == UNCHANGED << lastCall, lastInserts >>

KafkaUnchanged == UNCHANGED << log, position, committed, message >>

ProcessUnchanged ==
  UNCHANGED << running, attempt, slept, clickhouse_client, closed, config,
               otherVars >>

\* kafkaOk, chOk: whether connect_kafka(), connect_clickhouse() returns True
\* when called.

\* mutant: the loop is left once the Kafka consumer is there
AttemptSucceeds_KafkaOnly(kafkaOk, chOk) == kafkaOk

\* 205: if self.connect_kafka() and self.connect_clickhouse()
AttemptSucceeds(kafkaOk, chOk) == kafkaOk /\ chOk

\* what the attempt's two calls came to; connect_clickhouse() is called only
\* if connect_kafka() returned True
ConnectResult(kafkaOk, chOk) ==
  IF ~kafkaOk THEN "connect_kafka_false"
  ELSE IF ~chOk THEN "connect_clickhouse_false"
  ELSE "connect_true"

\* mutant: the delay grows with the attempts
RetryDelay_Backoff(n) == retry_delay * (n + 1)

\* 208: time.sleep(retry_delay) after failed attempt n
RetryDelay(n) == retry_delay

\* 204-211: one attempt of the connection loop that succeeds.  `attempt` is
\* not read after the loop and is put back to 0, and `slept` with it.
ConnectOk ==
  /\ pc = "connect"
  /\ attempt < max_retries
  /\ \E kafkaOk, chOk \in BOOLEAN :
       /\ AttemptSucceeds(kafkaOk, chOk)
       /\ Calls(ConnectResult(kafkaOk, chOk))
  /\ clickhouse_client' = TRUE
  /\ attempt' = 0
  /\ slept' = 0
  /\ pc' = "while"
  /\ UNCHANGED << running, closed, config, pollLeft >>
  /\ BuffersUnchanged /\ KafkaUnchanged
  /\ UNCHANGED otherVars

\* 204-211: one attempt that fails, and the sleep after it; sys.exit(1) after
\* the last one.  connect_clickhouse() may fail before or after it has set
\* self.clickhouse_client (84-90).
ConnectFail ==
  /\ pc = "connect"
  /\ attempt < max_retries
  /\ \E kafkaOk, chOk \in BOOLEAN :
       /\ ~AttemptSucceeds(kafkaOk, chOk)
       /\ Calls(ConnectResult(kafkaOk, chOk))
       /\ IF kafkaOk
            THEN \E set \in BOOLEAN :
                   clickhouse_client' = (clickhouse_client \/ set)
            ELSE clickhouse_client' = clickhouse_client
  /\ slept' = slept + RetryDelay(attempt)
  /\ attempt' = attempt + 1
  /\ pc' = IF attempt + 1 = max_retries THEN "exited" ELSE "connect"
  /\ UNCHANGED << running, closed, config, pollLeft >>
  /\ BuffersUnchanged /\ KafkaUnchanged
  /\ UNCHANGED otherVars

\* mutant: the iterator waits one tick longer than consumer_timeout_ms
CallNext_LongTimeout ==
  /\ pc' = "poll"
  /\ pollLeft' = PollTimeout + 1
  /\ Calls("next")

\* 223: the for statement calls the iterator's __next__, which sets its timeout
CallNext ==
  /\ pc' = "poll"
  /\ pollLeft' = PollTimeout
  /\ Calls("next")

\* mutant: the loop does not test the flag
While_FlagIgnored ==
  /\ pc = "while"
  /\ CallNext
  /\ ProcessUnchanged /\ BuffersUnchanged /\ KafkaUnchanged

\* 220: while self.running
While ==
  /\ pc = "while"
  /\ IF running
       THEN CallNext
       ELSE pc' = "finally" /\ pollLeft' = pollLeft /\ NoCall
  /\ ProcessUnchanged /\ BuffersUnchanged /\ KafkaUnchanged

LogSize == Len(log[TOPIC_ACCESS_EVENT]) + Len(log[TOPIC_CONNECTOR_HEALTH])

\* 223: the iterator yields the next record of topic t; the consumer's position
\* moves past it.  The record is one already in the topic or one just appended.
Deliver(t) ==
  /\ pc = "poll"
  /\ pollLeft > 0
  /\ \/ /\ position[t] < Len(log[t])
        /\ log' = log
     \/ /\ position[t] = Len(log[t])
        /\ LogSize < MaxLog
        /\ \E k \in Kinds : log' = [log EXCEPT ![t] = Append(@, k)]
  /\ position' = [position EXCEPT ![t] = @ + 1]
  /\ message' = [topic |-> t, offset |-> position[t] + 1]
  /\ pc' = "got"
  /\ NoCall
  /\ quietFor' = -1
  /\ pollLeft' = 0
  /\ UNCHANGED << committed, event_buffer, health_buffer,
                  elapsed, total_events_processed,
                  total_health_processed, store, written, failed >>
  /\ ProcessUnchanged

\* 223, 237: consumer_timeout_ms passed with no record: the for loop ends
PollTimesOut ==
  /\ pc = "poll"
  /\ pollLeft = 0
  /\ pc' = "idle_check"
  /\ NoCall
  /\ pollLeft' = 0
  /\ ProcessUnchanged /\ BuffersUnchanged /\ KafkaUnchanged

\* 224-225: if not self.running: break (to the periodic check of line 242)
GotMessage ==
  /\ pc = "got"
  /\ pc' = IF running THEN "process" ELSE "idle_check"
  /\ message' = IF running THEN message ELSE NoMessage
  /\ UNCHANGED << pollLeft, log, position, committed >>
  /\ NoCall
  /\ ProcessUnchanged /\ BuffersUnchanged

\* 227: self.process_message(message.topic, message.value); an exception it
\* raises is caught at 246 and run() goes to its finally block
Process ==
  /\ pc = "process"
  /\ LET kind == log[message.topic][message.offset]
     IN  IF ProcessRaises(kind)
           THEN /\ pc' = "finally"
                /\ Calls("process_message")
                /\ UNCHANGED << event_buffer, health_buffer, quietFor >>
           ELSE /\ pc' = "rec_check"
                /\ process_message(message.topic, kind, message.offset)
  /\ message' = NoMessage
  /\ UNCHANGED << elapsed, total_events_processed,
                  total_health_processed, store, written, pollLeft,
                  log, position, committed, failed >>
  /\ ProcessUnchanged

\* mutant: should_flush() restarts the flush timer
CallShouldFlush_ResetsTimer ==
  /\ Calls(IF should_flush THEN "should_flush_true" ELSE "should_flush_false")
  /\ elapsed' = 0
  /\ UNCHANGED << event_buffer, health_buffer, total_events_processed,
                  total_health_processed, store, written, failed, quietFor >>

\* 128-148: the call self.should_flush(): it returns its value and assigns to
\* nothing
CallShouldFlush ==
  /\ Calls(IF should_flush THEN "should_flush_true" ELSE "should_flush_false")
  /\ BuffersUnchanged

\* 230: if self.should_flush()
RecCheck ==
  /\ pc = "rec_check"
  /\ pc' = IF should_flush THEN "rec_flush" ELSE "rec_next"
  /\ CallShouldFlush
  /\ UNCHANGED pollLeft
  /\ ProcessUnchanged /\ KafkaUnchanged

\* mutant: line 233 is reached whatever the flush returned
RecAfterFlush_AlwaysCommit(ok) == "rec_commit"

\* where run() goes after the flush of line 231 returned ok
RecAfterFlush(ok) == IF ok THEN "rec_commit" ELSE "rec_failed"

\* 231: if self.flush_to_clickhouse()
RecFlush ==
  /\ pc = "rec_flush"
  /\ \E evOk, hOk \in BOOLEAN : flush_to_clickhouse(evOk, hOk)
  /\ pc' = RecAfterFlush(lastCall' = "flush_true")
  /\ UNCHANGED pollLeft
  /\ ProcessUnchanged /\ KafkaUnchanged

\* 235, 223: the body of the for statement ends (after the error message of a
\* failed flush, or without one) and the next record is asked for
RecNext ==
  /\ pc \in {"rec_next", "rec_failed"}
  /\ CallNext
  /\ ProcessUnchanged /\ BuffersUnchanged /\ KafkaUnchanged

\* consumer.commit(): the group's offsets become the consumer's positions
CommitOffsets(pos, com) == pos

\* mutant: an exception of the commit is swallowed and the loop goes on
RecCommit_RaiseSwallowed ==
  /\ pc = "rec_commit"
  /\ Calls("commit")
  /\ \/ committed' = CommitOffsets(position, committed)
     \/ committed' = committed
  /\ pc' = "rec_next"
  /\ UNCHANGED << log, position, message, pollLeft >>
  /\ ProcessUnchanged /\ BuffersUnchanged

\* 233: consumer.commit(); an exception it raises is caught at 246
RecCommit ==
  /\ pc = "rec_commit"
  /\ Calls("commit")
  /\ \/ /\ committed' = CommitOffsets(position, committed)
        /\ pc' = "rec_next"
     \/ /\ committed' = committed
        /\ pc' = "finally"
  /\ UNCHANGED << log, position, message, pollLeft >>
  /\ ProcessUnchanged /\ BuffersUnchanged

\* 242: if self.should_flush() and (self.event_buffer or self.health_buffer)
IdleCheck ==
  /\ pc = "idle_check"
  /\ pc' = IF should_flush /\ (event_buffer # << >> \/ health_buffer # << >>)
             THEN "idle_flush" ELSE "while"
  /\ CallShouldFlush
  /\ UNCHANGED pollLeft
  /\ ProcessUnchanged /\ KafkaUnchanged

\* mutant: a failed periodic flush ends the loop
IdleAfterFlush_FailureEndsLoop(ok) == IF ok THEN "idle_commit" ELSE "finally"

\* where run() goes after the flush of line 243 returned ok
IdleAfterFlush(ok) == IF ok THEN "idle_commit" ELSE "while"

\* 243: if self.flush_to_clickhouse()
IdleFlush ==
  /\ pc = "idle_flush"
  /\ \E evOk, hOk \in BOOLEAN : flush_to_clickhouse(evOk, hOk)
  /\ pc' = IdleAfterFlush(lastCall' = "flush_true")
  /\ UNCHANGED pollLeft
  /\ ProcessUnchanged /\ KafkaUnchanged

\* 244: consumer.commit()
IdleCommit ==
  /\ pc = "idle_commit"
  /\ Calls("commit")
  /\ \/ /\ committed' = CommitOffsets(position, committed)
        /\ pc' = "while"
     \/ /\ committed' = committed
        /\ pc' = "finally"
  /\ UNCHANGED << log, position, message, pollLeft >>
  /\ ProcessUnchanged /\ BuffersUnchanged

\* 252: if self.event_buffer or self.health_buffer
Finally ==
  /\ pc = "finally"
  /\ pc' = IF event_buffer # << >> \/ health_buffer # << >>
             THEN "fin_flush" ELSE "close"
  /\ UNCHANGED pollLeft
  /\ NoCall
  /\ ProcessUnchanged /\ BuffersUnchanged /\ KafkaUnchanged

\* where run() goes after the flush of line 253 returned ok
FinAfterFlush(ok) == IF ok THEN "fin_commit" ELSE "close"

\* 253: if self.flush_to_clickhouse()
FinFlush ==
  /\ pc = "fin_flush"
  /\ \E evOk, hOk \in BOOLEAN : flush_to_clickhouse(evOk, hOk)
  /\ pc' = FinAfterFlush(lastCall' = "flush_true")
  /\ UNCHANGED pollLeft
  /\ ProcessUnchanged /\ KafkaUnchanged

\* 254: consumer.commit(); an exception it raises leaves the finally block
FinCommit ==
  /\ pc = "fin_commit"
  /\ Calls("commit")
  /\ \/ /\ committed' = CommitOffsets(position, committed)
        /\ pc' = "close"
     \/ /\ committed' = committed
        /\ pc' = "aborted"
  /\ UNCHANGED << log, position, message, pollLeft >>
  /\ ProcessUnchanged /\ BuffersUnchanged

\* 259: consumer.close()
Close ==
  /\ pc = "close"
  /\ closed' = TRUE
  /\ pc' = "done"
  /\ UNCHANGED << running, attempt, slept, clickhouse_client, config, pollLeft >>
  /\ NoCall
  /\ BuffersUnchanged /\ KafkaUnchanged
  /\ UNCHANGED otherVars

\* mutant: the handler also drops what is buffered
Signal_ClearsBuffers ==
  /\ pc \notin Terminal
  /\ running
  /\ running' = FALSE
  /\ event_buffer' = << >>
  /\ health_buffer' = << >>
  /\ UNCHANGED << pc, attempt, slept, clickhouse_client, closed, config,
                  pollLeft, elapsed, total_events_processed,
                  total_health_processed, store, written, failed, quietFor >>
  /\ NoCall
  /\ KafkaUnchanged
  /\ UNCHANGED otherVars

\* 55-58: SIGTERM or SIGINT, delivered between any two steps of run()
Signal ==
  /\ pc \notin Terminal
  /\ running
  /\ running' = FALSE
  /\ UNCHANGED << pc, attempt, slept, clickhouse_client, closed, config,
                  pollLeft >>
  /\ NoCall
  /\ BuffersUnchanged /\ KafkaUnchanged
  /\ UNCHANGED otherVars

\* The process ends at any point (killed, or run() returned) and a new one is
\* started: __init__ again, and the group's committed offsets are where the
\* new consumer starts (64-73, enable_auto_commit=False).
Restart ==
  /\ pc' = "connect"
  /\ running' = TRUE
  /\ attempt' = 0
  /\ slept' = 0
  /\ clickhouse_client' = FALSE
  /\ closed' = FALSE
  /\ event_buffer' = << >>
  /\ health_buffer' = << >>
  /\ elapsed' = 0
  /\ total_events_processed' = 0
  /\ total_health_processed' = 0
  /\ position' = committed
  /\ message' = NoMessage
  /\ written' = [t \in Topics |-> << >>]
  /\ Calls("init")
  /\ failed' = "no"
  /\ quietFor' = -1
  /\ pollLeft' = 0
  /\ UNCHANGED << config, log, committed, store >>
  /\ UNCHANGED otherVars

\* Time passes while the iterator waits, up to its timeout.  The statements of
\* run() themselves take no time in this model.  The two clocks stop counting
\* where no comparison the program or a property makes can tell the difference.
TickPoll ==
  /\ pc = "poll"
  /\ pollLeft > 0
  /\ pollLeft' = pollLeft - 1
  /\ elapsed' = IF elapsed < Ticks(config.flush_interval_seconds)
                  THEN elapsed + 1 ELSE elapsed
  /\ quietFor' = IF quietFor >= 0 /\ quietFor <= Ticks(config.flush_interval_seconds)
                   THEN quietFor + 1 ELSE quietFor
  /\ UNCHANGED << pc, event_buffer, health_buffer, total_events_processed,
                  total_health_processed, store, written, failed >>
  /\ NoCall
  /\ ProcessUnchanged /\ KafkaUnchanged

Step ==
  \/ ConnectOk \/ ConnectFail \/ While
  \/ \E t \in Topics : Deliver(t)
  \/ PollTimesOut \/ GotMessage \/ Process
  \/ RecCheck \/ RecFlush \/ RecCommit \/ RecNext
  \/ IdleCheck \/ IdleFlush \/ IdleCommit
  \/ Finally \/ FinFlush \/ FinCommit \/ Close
  \/ Signal \/ Restart \/ TickPoll

Next == Step

Spec == Init /\ [][Next]_vars

\* One run of the process, from its start to its end.  The interpreter goes on
\* executing run() as long as it has a statement to execute, and the time the
\* iterator waits for passes; the records and the signal come when they come.
Statement ==
  \/ ConnectOk \/ ConnectFail \/ While
  \/ PollTimesOut \/ GotMessage \/ Process
  \/ RecCheck \/ RecFlush \/ RecCommit \/ RecNext
  \/ IdleCheck \/ IdleFlush \/ IdleCommit
  \/ Finally \/ FinFlush \/ FinCommit \/ Close

NextRun ==
  \/ Statement
  \/ TickPoll
  \/ \E t \in Topics : Deliver(t)
  \/ Signal

SpecRun == Init /\ [][NextRun]_vars /\ WF_vars(Statement \/ TickPoll)


(* ----------------------- records and their mapping -------------------- *)
\* mapping.py 6-25: the keys of a fact_access_events row, in the order of the
\* dict literal
AccessColumns ==
  << "event_id", "tenant_id", "event_time", "person_id", "badge_id", "site_id",
     "location_id", "direction", "result", "event_type", "deny_reason",
     "deny_code", "pacs_source", "pacs_event_id", "raw_payload",
     "suspicious_flag", "suspicious_reason", "suspicious_score" >>

\* the keys map_access_event reads with []
AccessRequired ==
  { "event_id", "tenant_id", "event_time", "badge_id", "site_id", "location_id",
    "direction", "result", "event_type", "pacs_source", "pacs_event_id" }

\* mutant: every key read with .get() has the default None
AccessDefault_AllNone(k) == None

\* the default of a key it reads with .get(): '', 0, 0.0 or None
AccessDefault(k) ==
  CASE k = "raw_payload" -> ""
    [] k = "suspicious_flag" -> "0"
    [] k = "suspicious_score" -> "0.0"
    [] OTHER -> None

\* mapping.py 30-46
HealthColumns ==
  << "tenant_id", "connector_id", "connector_name", "pacs_type", "pacs_version",
     "check_time", "status", "latency_ms", "events_per_minute", "error_count_1h",
     "last_event_time", "error_message", "error_code", "endpoint_url",
     "last_successful_sync" >>

HealthRequired ==
  { "tenant_id", "connector_id", "connector_name", "pacs_type", "check_time",
    "status", "latency_ms", "events_per_minute" }

HealthDefault(k) == IF k = "error_count_1h" THEN "0" ELSE None

\* A dict is a function from its keys; a row is the sequence of its
\* (key, value) pairs in insertion order.
Keys(row) == [i \in DOMAIN row |-> row[i][1]]

\* mutant: no key is read with []
KeyError_Never(cdc_record, required) == FALSE

\* cdc_record[k] raises KeyError for a key the record lacks
KeyError(cdc_record, required) == required \ DOMAIN cdc_record # {}

\* mutant: a key the record lacks is left out of the row
map_access_event_NoDefaults(cdc_record) ==
  SelectSeq([i \in DOMAIN AccessColumns |->
               << AccessColumns[i],
                  IF AccessColumns[i] \in DOMAIN cdc_record
                    THEN cdc_record[AccessColumns[i]] ELSE None >>],
            LAMBDA p : p[1] \in DOMAIN cdc_record)

\* mapping.py 4-25, where no KeyError is raised
map_access_event(cdc_record) ==
  [i \in DOMAIN AccessColumns |->
     << AccessColumns[i],
        IF AccessColumns[i] \in DOMAIN cdc_record
          THEN cdc_record[AccessColumns[i]]
          ELSE AccessDefault(AccessColumns[i]) >>]

\* mutant: two of the columns take each other's field
map_connector_health_Swapped(cdc_record) ==
  [i \in DOMAIN HealthColumns |->
     << HealthColumns[i],
        LET k == CASE HealthColumns[i] = "latency_ms" -> "events_per_minute"
                   [] HealthColumns[i] = "events_per_minute" -> "latency_ms"
                   [] OTHER -> HealthColumns[i]
        IN  IF k \in DOMAIN cdc_record
              THEN cdc_record[k] ELSE HealthDefault(k) >>]

\* mapping.py 28-46, where no KeyError is raised
map_connector_health(cdc_record) ==
  [i \in DOMAIN HealthColumns |->
     << HealthColumns[i],
        IF HealthColumns[i] \in DOMAIN cdc_record
          THEN cdc_record[HealthColumns[i]]
          ELSE HealthDefault(HealthColumns[i]) >>]

\* keys of the model's records that start with '__'
DunderKeys == { "__op", "__deleted", "__source_ts_ms", "__tenant_id" }
startswith_dunder(k) == k \in DunderKeys

\* message.get(k)
Get(message_value, k) ==
  IF k \in DOMAIN message_value THEN message_value[k] ELSE None

\* Python truth of a field's value: None and the empty string are false
Truthy(v) == v # None /\ v # ""

\* 104: op = message.get('__op') or message.get('op')
OpOf(message_value) ==
  IF Truthy(Get(message_value, "__op"))
    THEN Get(message_value, "__op") ELSE Get(message_value, "op")

\* mutant: a delete goes on to the mapping like a create
Skipped_OnlyUnknown(op) == Truthy(op) /\ op \notin {"c", "u", "r", "d"}

\* 107: if op and op not in ('c', 'u', 'r')
Skipped(op) == Truthy(op) /\ op \notin {"c", "u", "r"}

\* 112: the record without the keys that start with '__'
StripMeta(message_value) ==
  [k \in {x \in DOMAIN message_value : ~startswith_dunder(x)} |-> message_value[k]]

\* A deserialized value (71): its JSON type ("null" for None) and, for an
\* object, its fields.
Object(fields) == [type |-> "object", fields |-> fields]
NonObject(type) == [type |-> type, fields |-> << >>]

\* 97-126: the path process_message takes on a value of a topic
KindOf(topic, value) ==
  IF value.type = "null" THEN "delete"
  ELSE IF value.type # "object" THEN "nonobject"
  ELSE IF Skipped(OpOf(value.fields)) THEN "delete"
  ELSE IF topic = TOPIC_ACCESS_EVENT
         /\ KeyError(StripMeta(value.fields), AccessRequired) THEN "delete"
  ELSE IF topic = TOPIC_CONNECTOR_HEALTH
         /\ KeyError(StripMeta(value.fields), HealthRequired) THEN "delete"
  ELSE "row"

\* 116, 123: mapped
RowOf(topic, value) ==
  IF topic = TOPIC_ACCESS_EVENT THEN map_access_event(StripMeta(value.fields))
  ELSE IF topic = TOPIC_CONNECTOR_HEALTH
    THEN map_connector_health(StripMeta(value.fields))
  ELSE << >>

(* ------------------ the run loop on records with fields --------------- *)
\* The records the loop is given here.  Each carries an id (event_id,
\* connector_id) that tells what it is: a1, a2, h1, h2 complete records,
\* a_empty one with an empty __op, a_d, h_d ones with a marker other than
\* c/u/r, a_bad, h_bad ones that lack a required field.
AccessRecord(id) ==
  [k \in Range(AccessColumns) |-> IF k = "event_id" THEN id ELSE "v"]
HealthRecord(id) ==
  [k \in Range(HealthColumns) |-> IF k = "connector_id" THEN id ELSE "v"]
Restrict(f, ks) == [k \in ks |-> f[k]]
Without(f, k) == Restrict(f, DOMAIN f \ {k})
With(f, k, v) == [x \in DOMAIN f \cup {k} |-> IF x = k THEN v ELSE f[x]]

AccessObjects ==
  { AccessRecord("a1"),
    Restrict(AccessRecord("a2"), AccessRequired),
    With(With(AccessRecord("a1"), "__op", "c"), "__deleted", "false"),
    With(With(AccessRecord("a1"), "__op", "u"), "__source_ts_ms", "v"),
    With(AccessRecord("a1"), "op", "r"),
    With(AccessRecord("a1"), "extra", "v"),
    With(With(AccessRecord("a1"), "__op", "c"), "op", "d"),
    With(AccessRecord("a_empty"), "__op", ""),
    With(AccessRecord("a_d"), "__op", "d"),
    With(AccessRecord("a_d"), "op", "d"),
    With(With(AccessRecord("a_d"), "__op", ""), "op", "d"),
    With(AccessRecord("a_d"), "__op", "x"),
    With(Without(AccessRecord("a_bad"), "tenant_id"), "__tenant_id", "v") }
  \cup { Without(AccessRecord("a_bad"), k) : k \in AccessRequired }

HealthObjects ==
  { HealthRecord("h1"),
    Restrict(HealthRecord("h2"), HealthRequired),
    With(HealthRecord("h_d"), "__op", "d") }
  \cup { Without(HealthRecord("h_bad"), k) : k \in HealthRequired }

\* a topic process_message is not subscribed to
OtherTopic == "cg.cloudgate.cg_other"

Inputs ==
  { [topic |-> TOPIC_ACCESS_EVENT, value |-> Object(f)] :
      f \in AccessObjects \cup { HealthRecord("h_bad") } }
  \cup { [topic |-> TOPIC_CONNECTOR_HEALTH, value |-> Object(f)] :
      f \in HealthObjects \cup { AccessRecord("a_bad") } }
  \cup { [topic |-> OtherTopic, value |-> Object(AccessRecord("a1"))] }
  \cup { [topic |-> t, value |-> NonObject(ty)] :
      t \in Topics, ty \in {"null", "string", "array"} }

\* the state once the connection loop has succeeded
InitMsg ==
  /\ pc = "while"
  /\ running = TRUE
  /\ attempt = 0
  /\ slept = 0
  /\ clickhouse_client = TRUE
  /\ closed = FALSE
  /\ event_buffer = << >>
  /\ health_buffer = << >>
  /\ elapsed = 0
  /\ total_events_processed = 0
  /\ total_health_processed = 0
  /\ config \in Configs
  /\ pollLeft = 0
  /\ log = [t \in Topics |-> << >>]
  /\ position = [t \in Topics |-> 0]
  /\ committed = [t \in Topics |-> 0]
  /\ message = NoMessage
  /\ store = [t \in Topics |-> {}]
  /\ written = [t \in Topics |-> << >>]
  /\ lastInserts = << >>
  /\ lastCall = "init"
  /\ failed = "no"
  /\ quietFor = -1
  /\ OthersOff

RowsSoFar ==
  Len(written[TOPIC_ACCESS_EVENT]) + Len(written[TOPIC_CONNECTOR_HEALTH])
    + Len(event_buffer) + Len(health_buffer)

\* 223: the iterator yields a record; offsets are not followed here
DeliverRecord ==
  /\ pc = "poll"
  /\ pollLeft > 0
  /\ RowsSoFar < MaxRows
  /\ \E m \in Inputs : message' = m
  /\ pc' = "got"
  /\ NoCall
  /\ quietFor' = -1
  /\ pollLeft' = 0
  /\ UNCHANGED << log, position, committed, event_buffer, health_buffer,
                  elapsed, total_events_processed,
                  total_health_processed, store, written, failed >>
  /\ ProcessUnchanged

\* 227: self.process_message(message.topic, message.value)
ProcessRecord ==
  /\ pc = "process"
  /\ LET kind == KindOf(message.topic, message.value)
         mapped == RowOf(message.topic, message.value)
     IN  IF ProcessRaises(kind)
           THEN /\ pc' = "finally"
                /\ Calls("process_message")
                /\ UNCHANGED << event_buffer, health_buffer, quietFor >>
           ELSE /\ pc' = "rec_check"
                /\ process_message(message.topic, kind, mapped)
  /\ UNCHANGED << message, elapsed, total_events_processed,
                  total_health_processed, store, written, pollLeft,
                  log, position, committed, failed >>
  /\ ProcessUnchanged

NextMsg ==
  \/ While \/ DeliverRecord \/ GotMessage \/ ProcessRecord
  \/ RecCheck \/ RecFlush \/ RecCommit \/ RecNext

SpecMsg == InitMsg /\ [][NextMsg]_vars


(* ------------------- the two mappings, called on a dict --------------- *)
consumerVars ==
  << pc, running, attempt, slept, clickhouse_client, closed, event_buffer,
     health_buffer, elapsed, total_events_processed, total_health_processed,
     config, pollLeft, log, position, committed, message, store, written,
     lastInserts, lastCall, failed, quietFor >>

\* no consumer process is followed
ConsumerOff ==
  /\ pc = "off"
  /\ running = FALSE
  /\ attempt = 0
  /\ slept = 0
  /\ clickhouse_client = FALSE
  /\ closed = FALSE
  /\ event_buffer = << >>
  /\ health_buffer = << >>
  /\ elapsed = 0
  /\ total_events_processed = 0
  /\ total_health_processed = 0
  /\ config = [flush_interval_seconds |-> 1, max_batch_events |-> 1,
               max_batch_health |-> 1]
  /\ pollLeft = 0
  /\ log = [t \in Topics |-> << >>]
  /\ position = [t \in Topics |-> 0]
  /\ committed = [t \in Topics |-> 0]
  /\ message = NoMessage
  /\ store = [t \in Topics |-> {}]
  /\ written = [t \in Topics |-> << >>]
  /\ lastInserts = << >>
  /\ lastCall = "init"
  /\ failed = "no"
  /\ quietFor = -1

Mappers == { "map_access_event", "map_connector_health" }

ColumnsOf(fn) == IF fn = "map_access_event" THEN AccessColumns ELSE HealthColumns

\* the keys the function reads with []
RequiredKeys(fn) ==
  IF fn = "map_access_event" THEN AccessRequired ELSE HealthRequired

\* the dict a row is: its keys and the value of each
AsDict(row) ==
  [k \in { row[i][1] : i \in DOMAIN row } |->
     row[CHOOSE i \in DOMAIN row : row[i][1] = k][2]]

\* a call of one of the two functions: it raises KeyError or returns a row
MapCall(fn, cdc_record) ==
  IF KeyError(cdc_record, RequiredKeys(fn))
    THEN [status |-> "KeyError", row |-> << >>]
  ELSE IF fn = "map_access_event"
    THEN [status |-> "returned", row |-> map_access_event(cdc_record)]
  ELSE [status |-> "returned", row |-> map_connector_health(cdc_record)]

\* The dicts the functions are called on: one with every key of a table, each
\* key with a value of its own; that dict without one key, without a required
\* and an optional key, with a key of no column, with a null, an empty or a
\* zero optional field; the required keys alone, and those without one; the
\* empty dict.
FullRecord(columns) == [k \in Range(columns) |-> k \o "_value"]

RecordsOf(columns, required) ==
  LET full == FullRecord(columns)
      optional == Range(columns) \ required
  IN  { full, Restrict(full, required), Restrict(full, {}),
        With(full, "extra", "extra_value") }
      \cup { Without(full, k) : k \in Range(columns) }
      \cup { Without(Restrict(full, required), k) : k \in required }
      \cup { With(full, k, v) : k \in optional, v \in { None, "", "0" } }
      \cup { Without(Without(full, k), o) :
               k \in { columns[1], columns[2] }, o \in optional }

MapInputs ==
  RecordsOf(AccessColumns, AccessRequired)
    \cup RecordsOf(HealthColumns, HealthRequired)

InitMap ==
  /\ mapPc = "call"
  /\ mapper \in Mappers
  /\ mapArg \in MapInputs
  /\ mapOut = NotCalled
  /\ mapOut2 = NotCalled
  /\ ConsumerOff /\ GeneratorOff /\ TrickleOff

\* mapped = map_...(record)
CallMapper ==
  /\ mapPc = "call"
  /\ mapOut' = MapCall(mapper, mapArg)
  /\ mapPc' = IF mapOut'.status = "returned" THEN "again" ELSE "end"
  /\ UNCHANGED << mapper, mapArg, mapOut2, consumerVars, genVars, trickleVars >>

\* the function called on the dict it returned
CallMapperAgain ==
  /\ mapPc = "again"
  /\ mapOut2' = MapCall(mapper, AsDict(mapOut.row))
  /\ mapPc' = "end"
  /\ UNCHANGED << mapper, mapArg, mapOut, consumerVars, genVars, trickleVars >>

NextMap == CallMapper \/ CallMapperAgain

SpecMap == InitMap /\ [][NextMap]_vars


(* --------------------------- generator.py: main ----------------------- *)
\* generator.py 51-80: the connector_id of each entry
CONNECTORS ==
  << "lenel-primary", "ccure-satellite", "s2-building-b", "genetec-campus" >>

\* values of INGEST_MODE (config.py 9)
IngestModes == { "cdc", "direct", "CDC", "kafka", "" }

\* mutant: every mode but 'direct' takes the MySQL writer
WriterClass_DefaultsToMySQL(mode) ==
  IF mode = "direct" THEN "ClickHouseWriter" ELSE "MySQLWriter"

\* 406-409: the class main() constructs for a mode, None for a mode it does
\* not know
WriterClass(mode) ==
  IF mode = "cdc" THEN "MySQLWriter"
  ELSE IF mode = "direct" THEN "ClickHouseWriter"
  ELSE None

\* mutant: the health records always go to MySQL
HealthWriter_AlwaysMySQL(w) == "MySQLWriter"

\* 462: writer.write_connector_health(health)
HealthWriter(w) == w

\* a write_* call on writer w, which returned (ok) or raised
WriterCall(w, kind, ok) ==
  writer_calls' = [writer_calls EXCEPT ![w] = Append(@, [kind |-> kind, ok |-> ok])]

InitGen ==
  /\ genPc = "init"
  /\ ingest_mode \in IngestModes
  /\ writer = None
  /\ connected = "untried"
  /\ shutdown_requested = FALSE
  /\ generated = 0
  /\ total_events = 0
  /\ events_since_health = 0
  /\ healthIdx = 0
  /\ writer_calls = [w \in Writers |-> << >>]
  /\ writer_closed = FALSE
  /\ exit_status = NotExited
  /\ ConsumerOff /\ MapOff /\ TrickleOff

notGenVars == << consumerVars, mapVars, trickleVars >>

\* 404-417: the writer is constructed, its constructor connecting (ok) or
\* raising; sys.exit(1) for a mode that is neither 'cdc' nor 'direct' and
\* for a constructor that raised
GenInit ==
  /\ genPc = "init"
  /\ IF WriterClass(ingest_mode) = None
       THEN /\ genPc' = "exited"
            /\ exit_status' = 1
            /\ UNCHANGED << writer, connected >>
       ELSE \E ok \in BOOLEAN :
              IF ok
                THEN /\ writer' = WriterClass(ingest_mode)
                     /\ connected' = "ok"
                     /\ genPc' = "while"
                     /\ UNCHANGED exit_status
                ELSE /\ connected' = "failed"
                     /\ genPc' = "exited"
                     /\ exit_status' = 1
                     /\ UNCHANGED writer
  /\ UNCHANGED << ingest_mode, shutdown_requested, generated, total_events,
                  events_since_health, healthIdx, writer_calls, writer_closed,
                  notGenVars >>

\* 429-436: while not shutdown_requested; event = generate_access_event(...)
GenWhile ==
  /\ genPc = "while"
  /\ IF shutdown_requested
       THEN genPc' = "finally" /\ UNCHANGED generated
       ELSE /\ generated < MaxEvents
            /\ generated' = generated + 1
            /\ genPc' = "write_event"
  /\ UNCHANGED << ingest_mode, writer, connected, shutdown_requested,
                  total_events, events_since_health, healthIdx, writer_calls,
                  writer_closed, exit_status, notGenVars >>

\* 437-452: writer.write_access_event(event); an exception is logged
GenWriteEvent ==
  /\ genPc = "write_event"
  /\ \E ok \in BOOLEAN :
       /\ WriterCall(writer, "access_event", ok)
       /\ total_events' = IF ok THEN total_events + 1 ELSE total_events
       /\ events_since_health' =
            IF ok THEN events_since_health + 1 ELSE events_since_health
  /\ genPc' = "health_check"
  /\ UNCHANGED << ingest_mode, writer, connected, shutdown_requested,
                  generated, healthIdx, writer_closed, exit_status,
                  notGenVars >>

\* 454-455: if current_time - last_health_time >= health_interval_seconds
GenHealthCheck ==
  /\ genPc = "health_check"
  /\ \E due \in BOOLEAN :
       IF due THEN genPc' = "write_health" /\ healthIdx' = 1
       ELSE genPc' = "while" /\ healthIdx' = healthIdx
  /\ UNCHANGED << ingest_mode, writer, connected, shutdown_requested,
                  generated, total_events, events_since_health, writer_calls,
                  writer_closed, exit_status, notGenVars >>

\* 459-471: one connector of the for loop: writer.write_connector_health;
\* after the last one events_since_health = 0
GenWriteHealth ==
  /\ genPc = "write_health"
  /\ \E ok \in BOOLEAN :
       WriterCall(HealthWriter(writer), "connector_health", ok)
  /\ IF healthIdx < Len(CONNECTORS)
       THEN /\ healthIdx' = healthIdx + 1
            /\ UNCHANGED << genPc, events_since_health >>
       ELSE /\ healthIdx' = 0
            /\ events_since_health' = 0
            /\ genPc' = "while"
  /\ UNCHANGED << ingest_mode, writer, connected, shutdown_requested,
                  generated, total_events, writer_closed, exit_status,
                  notGenVars >>

\* 35-39: signal_handler
GenSignal ==
  /\ genPc \notin { "exited", "done" }
  /\ ~shutdown_requested
  /\ shutdown_requested' = TRUE
  /\ UNCHANGED << genPc, ingest_mode, writer, connected, generated,
                  total_events, events_since_health, healthIdx, writer_calls,
                  writer_closed, exit_status, notGenVars >>

\* 477-491: the finally block: writer.close(); main() returns
GenFinally ==
  /\ genPc = "finally"
  /\ writer_closed' = (writer # None)
  /\ genPc' = "done"
  /\ exit_status' = 0
  /\ UNCHANGED << ingest_mode, writer, connected, shutdown_requested,
                  generated, total_events, events_since_health, healthIdx,
                  writer_calls, notGenVars >>

NextGen ==
  \/ GenInit \/ GenWhile \/ GenWriteEvent \/ GenHealthCheck
  \/ GenWriteHealth \/ GenSignal \/ GenFinally

SpecGen == InitGen /\ [][NextGen]_vars


(* -------------------- datagen/trickle_simple.py: main ----------------- *)
\* 615: if batch_count % 3 == 0
UpdateEvery == 3
\* 616: fetch_pending_requests(client, limit=10)
PendingLimit == 10
\* 618: for req in pending[:3]
UpdatesPerCycle == 3

RequestStatuses ==
  { "submitted", "pending_approval", "approved", "rejected", "provisioned" }

\* 393: WHERE status IN ('submitted', 'pending_approval', 'approved')
FetchedStatuses == { "submitted", "pending_approval", "approved" }

\* a timestamp column that is NULL
NoTime == 0

\* datetime.utcnow() in batch n
Now(n) == n

\* 331-346: the dict generate_access_request returns (the columns the
\* workflow reads or writes)
NewRequest ==
  [ status |-> "submitted", approved_at |-> NoTime, provisioned_at |-> NoTime,
    rejected_at |-> NoTime ]

\* values of random.random(), in hundredths
Rolls == { 0, 69, 70, 79, 80, 84, 85, 99 }

\* 456-487: new_status for the request's status and the number drawn
UpdateStatus(current_status, roll) ==
  IF current_status = "submitted"
    THEN IF roll < 80 THEN "pending_approval" ELSE None
  ELSE IF current_status = "pending_approval"
    THEN IF roll < 70 THEN "approved"
         ELSE IF roll < 85 THEN "rejected" ELSE None
  ELSE IF current_status = "approved"
    THEN IF roll < 85 THEN "provisioned" ELSE None
  ELSE None

\* mutant: every update stamps approved_at
UpdatedRow_StampsApprovedAt(row, status, now) ==
  [ status |-> status,
    approved_at |-> now,
    provisioned_at |-> IF status = "provisioned" THEN now ELSE row.provisioned_at,
    rejected_at |-> IF status = "rejected" THEN now ELSE row.rejected_at ]

\* 490-515: the row the INSERT ... SELECT writes for the request's row
UpdatedRow(row, status, now) ==
  [ status |-> status,
    approved_at |-> IF status = "approved" THEN now ELSE row.approved_at,
    provisioned_at |-> IF status = "provisioned" THEN now ELSE row.provisioned_at,
    rejected_at |-> IF status = "rejected" THEN now ELSE row.rejected_at ]

Min(a, b) == IF a < b THEN a ELSE b

\* mutant: the query has no WHERE clause
fetch_pending_requests_AllStatuses(table, limit) ==
  [ j \in 1..Min(limit, Len(table)) |->
      [ request_id |-> j, status |-> table[j].status ] ]

\* 390-408: the requests in one of the three statuses, oldest first, at most
\* `limit` of them; a request is known by its place in submitted_at order
fetch_pending_requests(table, limit) ==
  LET ids == SelectSeq([i \in 1..Len(table) |-> i],
                       LAMBDA i : table[i].status \in FetchedStatuses)
  IN  [ j \in 1..Min(limit, Len(ids)) |->
          [ request_id |-> ids[j], status |-> table[ids[j]].status ] ]

\* mutant: every fetched request is updated
PendingSlice_Whole(fetched) == fetched

\* 618: pending[:3]
PendingSlice(fetched) == SubSeq(fetched, 1, Min(UpdatesPerCycle, Len(fetched)))

\* mutant: requests are updated in every batch
UpdateDue_EveryBatch(n) == TRUE

\* 615: batch_count % 3 == 0
UpdateDue(n) == n % UpdateEvery = 0

InitTrk ==
  /\ trkPc = "while"
  /\ trickle_running = TRUE
  /\ no_requests \in BOOLEAN
  /\ batch_count = 0
  /\ requests = << >>
  /\ pending = << >>
  /\ reqIdx = 0
  /\ updates = 0
  /\ total_requests_new = 0
  /\ total_requests_updated = 0
  /\ new_status = "not_called"
  /\ ConsumerOff /\ MapOff /\ GeneratorOff

notTrickleVars == << consumerVars, mapVars, genVars >>

\* 584-601: while running: the batch is counted and its events are inserted;
\* an exception of the insert is caught at 636 and the loop goes on
TrkBatch ==
  /\ trkPc = "while"
  /\ IF ~trickle_running
       THEN trkPc' = "done" /\ UNCHANGED batch_count
       ELSE /\ batch_count < MaxBatches
            /\ batch_count' = batch_count + 1
            /\ \E ok \in BOOLEAN :
                 trkPc' = IF ok THEN "requests" ELSE "while"
  /\ UNCHANGED << trickle_running, no_requests, requests, pending, reqIdx,
                  updates, total_requests_new, total_requests_updated,
                  new_status, notTrickleVars >>

\* 605-612: if not args.no_requests: maybe a new request is generated and
\* inserted (the insert returns or raises)
TrkNewRequest ==
  /\ trkPc = "requests"
  /\ IF no_requests
       THEN /\ trkPc' = "while"
            /\ UNCHANGED << requests, total_requests_new >>
       ELSE \E made \in { "none", "inserted", "raised" } :
              /\ made = "inserted" => Len(requests) < MaxRequests
              /\ requests' = IF made = "inserted"
                               THEN Append(requests, NewRequest) ELSE requests
              /\ total_requests_new' =
                   IF made = "inserted" THEN total_requests_new + 1
                   ELSE total_requests_new
              /\ trkPc' = IF made = "raised" THEN "while" ELSE "update_check"
  /\ UNCHANGED << trickle_running, no_requests, batch_count, pending, reqIdx,
                  updates, total_requests_updated, new_status,
                  notTrickleVars >>

\* 615-617: on every third batch the pending requests are fetched (the
\* query returns or raises)
TrkFetch ==
  /\ trkPc = "update_check"
  /\ IF UpdateDue(batch_count)
       THEN \E ok \in BOOLEAN :
              IF ok
                THEN /\ pending' = fetch_pending_requests(requests, PendingLimit)
                     /\ updates' = 0
                     /\ reqIdx' = 1
                     /\ trkPc' = "update"
                ELSE /\ trkPc' = "while"
                     /\ UNCHANGED << pending, updates, reqIdx >>
       ELSE /\ trkPc' = "while"
            /\ UNCHANGED << pending, updates, reqIdx >>
  /\ UNCHANGED << trickle_running, no_requests, batch_count, requests,
                  total_requests_new, total_requests_updated, new_status,
                  notTrickleVars >>

\* 618-622: one request of pending[:3]: update_access_request returns None
\* and writes nothing, or writes the request's row with the new status and
\* returns it, or its INSERT raises; after the last request the batch ends
TrkUpdate ==
  /\ trkPc = "update"
  /\ IF reqIdx > Len(PendingSlice(pending))
       THEN /\ trkPc' = "while"
            /\ UNCHANGED << requests, reqIdx, updates, total_requests_updated,
                            new_status >>
       ELSE \E roll \in Rolls, ok \in BOOLEAN :
              LET req == PendingSlice(pending)[reqIdx]
                  status == UpdateStatus(req.status, roll)
              IN  IF status = None
                    THEN /\ new_status' = None
                         /\ reqIdx' = reqIdx + 1
                         /\ UNCHANGED << trkPc, requests, updates,
                                         total_requests_updated >>
                  ELSE IF ok
                    THEN /\ requests' =
                              [requests EXCEPT ![req.request_id] =
                                 UpdatedRow(@, status, Now(batch_count))]
                         /\ new_status' = status
                         /\ updates' = updates + 1
                         /\ total_requests_updated' = total_requests_updated + 1
                         /\ reqIdx' = reqIdx + 1
                         /\ UNCHANGED trkPc
                  ELSE /\ new_status' = "raised"
                       /\ trkPc' = "while"
                       /\ UNCHANGED << requests, reqIdx, updates,
                                       total_requests_updated >>
  /\ UNCHANGED << trickle_running, no_requests, batch_count, pending,
                  total_requests_new, notTrickleVars >>

\* 78-91: signal_handler
TrkSignal ==
  /\ trkPc # "done"
  /\ trickle_running
  /\ trickle_running' = FALSE
  /\ UNCHANGED << trkPc, no_requests, batch_count, requests, pending, reqIdx,
                  updates, total_requests_new, total_requests_updated,
                  new_status, notTrickleVars >>

NextTrk == TrkBatch \/ TrkNewRequest \/ TrkFetch \/ TrkUpdate \/ TrkSignal

SpecTrk == InitTrk /\ [][NextTrk]_vars


(* ===================== the claims and their checks ==================== *)
CommitSites == {"rec_commit", "idle_commit", "fin_commit"}
FlushSites == {"rec_flush", "idle_flush", "fin_flush"}
CheckSites == {"rec_check", "idle_check"}

\* steps of run(): the call of consumer.commit(), of flush_to_clickhouse(),
\* of should_flush(); a new process
CommitCalled == pc \in CommitSites /\ lastCall' = "commit"
FlushCalled == pc \in FlushSites /\ pc' \notin FlushSites \cup {"connect"}
FlushFailed == FlushCalled /\ lastCall' = "flush_false"
LoopFlushFailed == FlushFailed /\ pc \in {"rec_flush", "idle_flush"}
CheckCalled == pc \in CheckSites /\ pc' \notin CheckSites \cup {"connect"}
Restarted == pc' = "connect" /\ pc # "connect"

BuffersEmpty == event_buffer = << >> /\ health_buffer = << >>
FlushInterval == Ticks(config.flush_interval_seconds)

\* C1: consumer.commit() is called only at its three sites and there only
\* directly after a flush_to_clickhouse() that returned True; the committed
\* offsets change in no other step.
C1_CommitOnlyAfterSuccessfulFlush ==
  [][ /\ CommitCalled => lastCall = "flush_true"
      /\ committed' # committed => CommitCalled ]_vars

\* a commit was made and moved the committed offset of the access-event topic
C1_Witness ==
  /\ lastCall = "commit"
  /\ committed[TOPIC_ACCESS_EVENT] > 0
  /\ pc = "rec_next"

\* C2 (the claim as made): when consumer.commit() is called, every delivered
\* record that is a valid non-delete record has its row in the store.
C2_CommitCoversOnlyInsertedRows ==
  pc \in CommitSites =>
    \A t \in Topics : \A i \in 1..position[t] :
      log[t][i] = "row" => i \in store[t]

\* C3 (the claim as made, its safety half): no valid non-delete record is
\* lost: a record below the committed offset, which no restarted consumer is
\* given again, has its row in the store.
C3_NoRecordLost ==
  \A t \in Topics : \A i \in 1..committed[t] :
    log[t][i] = "row" => i \in store[t]

\* C4 (the claim as made): a flush_to_clickhouse() that returns False leaves
\* both buffers as they were.
C4_FailedFlushKeepsBothBuffers ==
  [][ FlushFailed =>
        event_buffer' = event_buffer /\ health_buffer' = health_buffer ]_vars

\* C4 (amended): a flush_to_clickhouse() that returns False leaves
\* health_buffer as it was, and event_buffer too unless the insert into
\* fact_access_events had returned and the one into fact_connector_health
\* raised: then event_buffer is empty and its rows are in fact_access_events.
C4_FailedFlushKeepsUnwrittenRows ==
  [][ FlushFailed =>
        /\ health_buffer' = health_buffer
        /\ \/ event_buffer' = event_buffer
           \/ /\ event_buffer' = << >>
              /\ health_buffer # << >>
              /\ Len(lastInserts') = 2
              /\ lastInserts'[1] = [table |-> "fact_access_events",
                                    rows |-> event_buffer, ok |-> TRUE]
              /\ ~lastInserts'[2].ok
              /\ Range(event_buffer) \subseteq store'[TOPIC_ACCESS_EVENT] ]_vars

\* a flush returned False after its first insert had returned
C4_Witness ==
  /\ lastCall = "flush_false"
  /\ failed = "events_written"
  /\ event_buffer = << >>
  /\ health_buffer # << >>

\* C5 (the claim as made): after a flush that should_flush() triggered and that
\* returned False, should_flush() still holds and the committed offsets are
\* the same.
C5_StillDueAfterFailedFlush ==
  [][ (LoopFlushFailed /\ should_flush) =>
        (should_flush' /\ committed' = committed) ]_vars

\* C5 (amended): after such a flush the committed offsets are the same, and
\* should_flush() still holds unless the call had written and cleared the
\* event buffer before the insert of the health rows raised.
C5_StillDueAfterFlushThatWroteNothing ==
  [][ (LoopFlushFailed /\ should_flush) =>
        /\ committed' = committed
        /\ failed' = "nothing_written" => should_flush' ]_vars

\* a triggered flush failed with nothing written, and a flush is still due
C5_Witness ==
  /\ pc = "rec_failed"
  /\ failed = "nothing_written"
  /\ should_flush
  /\ ~BuffersEmpty

\* C6 (the claim as made): the two buffers together never hold more rows than
\* MAX_BUFFER_SIZE.
C6_BuffersWithinCeiling ==
  Len(event_buffer) + Len(health_buffer) <= MAX_BUFFER_SIZE

\* C7: should_flush() returns True exactly when the flush interval has passed,
\* or a buffer has reached its batch size, or the two buffers together have
\* reached MAX_BUFFER_SIZE.
C7_ShouldFlushIffATriggerHolds ==
  [][ CheckCalled =>
        ( lastCall' = "should_flush_true"
          <=> \/ elapsed >= FlushInterval
              \/ Len(event_buffer) >= config.max_batch_events
              \/ Len(health_buffer) >= config.max_batch_health
              \/ Len(event_buffer) + Len(health_buffer) >= MAX_BUFFER_SIZE ) ]_vars

\* should_flush() returned True on the ceiling alone
C7_Witness ==
  /\ lastCall = "should_flush_true"
  /\ pc \in {"rec_flush", "idle_flush"}
  /\ elapsed < FlushInterval
  /\ Len(event_buffer) < config.max_batch_events
  /\ Len(health_buffer) < config.max_batch_health
  /\ Len(event_buffer) + Len(health_buffer) >= MAX_BUFFER_SIZE

\* C8: a flush_to_clickhouse() that returns True has made exactly one insert
\* call per buffer that was not empty, into that buffer's table and with all
\* its rows, none for an empty buffer; both buffers are empty afterwards, the
\* rows are in the store and last_flush_time is the current time.
C8_SuccessfulFlushWritesEachBufferOnce ==
  [][ (FlushCalled /\ lastCall' = "flush_true") =>
        /\ lastInserts' =
             (IF event_buffer # << >>
                THEN << [table |-> "fact_access_events",
                         rows |-> event_buffer, ok |-> TRUE] >>
                ELSE << >>)
             \o
             (IF health_buffer # << >>
                THEN << [table |-> "fact_connector_health",
                         rows |-> health_buffer, ok |-> TRUE] >>
                ELSE << >>)
        /\ event_buffer' = << >>
        /\ health_buffer' = << >>
        /\ Range(event_buffer) \subseteq store'[TOPIC_ACCESS_EVENT]
        /\ Range(health_buffer) \subseteq store'[TOPIC_CONNECTOR_HEALTH]
        /\ elapsed' = 0 ]_vars

\* a flush that wrote both buffers returned True some time after the last one
C8_Witness ==
  /\ lastCall = "flush_true"
  /\ Len(lastInserts) = 2
  /\ BuffersEmpty
  /\ elapsed = 0

\* rows leave a buffer only in a step that inserts them
RowsLeaveOnlyWritten ==
  /\ Range(event_buffer) \ Range(event_buffer')
       \subseteq Range(written'[TOPIC_ACCESS_EVENT])
  /\ Range(health_buffer) \ Range(health_buffer')
       \subseteq Range(written'[TOPIC_CONNECTOR_HEALTH])

\* a failed flush of the loop leaves run() in the loop, the consumer open and
\* the rows it did not write in the buffers
LoopSurvivesFailure ==
  LoopFlushFailed =>
    /\ pc' \in {"rec_failed", "while"}
    /\ ~closed'
    /\ running' = running
    /\ ~BuffersEmpty'
    /\ RowsLeaveOnlyWritten

\* C9 (the claim as made): a failed flush of the loop does not end it, the very
\* next should_flush() check of the running loop is followed by another flush,
\* and the rows stay buffered until a flush writes them.
C9_RetriedAtNextCheck ==
  [][ /\ LoopSurvivesFailure
      /\ (CheckCalled /\ failed # "no" /\ running) => pc' \in FlushSites
      /\ ~Restarted => RowsLeaveOnlyWritten ]_vars

\* C9 (amended): as above, where the very next check is followed by another
\* flush if the failed call had written nothing; if it had written the event
\* rows, the retry waits for the next check at which should_flush() holds.
C9_RetriedAtNextCheckIfNothingWritten ==
  [][ /\ LoopSurvivesFailure
      /\ (CheckCalled /\ failed = "nothing_written") => pc' \in FlushSites
      /\ (CheckCalled /\ failed = "events_written" /\ should_flush)
           => pc' \in FlushSites
      /\ ~Restarted => RowsLeaveOnlyWritten ]_vars

\* a flush of the loop failed with nothing written, the loop went on, and the
\* check made for the next record is followed by the retry
C9_Witness ==
  /\ pc = "rec_flush"
  /\ failed = "nothing_written"
  /\ running
  /\ ~closed

C11_BatchOfExactlyMaxBatchEvents ==
  [][ (failed = "no" /\ ~Restarted) =>
        /\ Len(event_buffer) <= config.max_batch_events
        /\ (pc = "rec_check" /\ CheckCalled
              /\ Len(event_buffer) = config.max_batch_events)
             => pc' = "rec_flush"
        /\ (pc = "rec_check" /\ CheckCalled
              /\ Len(event_buffer) < config.max_batch_events
              /\ health_buffer = << >> /\ elapsed < FlushInterval
              /\ Len(event_buffer) < MAX_BUFFER_SIZE)
             => (pc' = "rec_next" /\ event_buffer' = event_buffer)
        /\ (FlushCalled /\ lastCall' = "flush_true" /\ event_buffer # << >>)
             => /\ lastInserts'[1] = [table |-> "fact_access_events",
                                      rows |-> event_buffer, ok |-> TRUE]
                /\ Len(lastInserts'[1].rows) <= config.max_batch_events
                /\ (pc = "rec_flush" /\ health_buffer = << >>
                      /\ elapsed < FlushInterval)
                     => Len(lastInserts'[1].rows) = config.max_batch_events ]_vars

\* three access-event records with a batch size of two: an insert of two rows,
\* then a later one of the remaining row
C11_Witness ==
  /\ config.max_batch_events = 2
  /\ failed = "no"
  /\ written[TOPIC_ACCESS_EVENT] = << 1, 2, 3 >>
  /\ Len(lastInserts) = 1
  /\ lastInserts[1].rows = << 3 >>
  /\ committed[TOPIC_ACCESS_EVENT] = 2

\* the step in which run() calls process_message
ProcessCalled == pc = "process" /\ pc' \notin {"process", "connect"}

RequiredOf(topic) ==
  IF topic = TOPIC_ACCESS_EVENT THEN AccessRequired ELSE HealthRequired

\* an object of one of the two topics without one of the keys its mapping
\* reads with []
LacksRequired(m) ==
  /\ m.topic \in Topics
  /\ m.value.type = "object"
  /\ RequiredOf(m.topic) \ DOMAIN m.value.fields # {}

\* the ids of the rows buffered or written
RowIds ==
  { r[1][2] : r \in Range(event_buffer) \cup Range(written[TOPIC_ACCESS_EVENT]) }
  \cup
  { r[2][2] : r \in Range(health_buffer) \cup Range(written[TOPIC_CONNECTOR_HEALTH]) }

\* C12: process_message on a record that lacks a required field returns to
\* its caller without raising and leaves both buffers, and everything else
\* the loop goes by, as they were; so what is buffered and written is what
\* the other records alone give: a complete record is buffered whatever was
\* processed before it, and no row of an incomplete record is ever buffered
\* or written.
C12_IncompleteRecordDropped ==
  /\ [][ ProcessCalled =>
           /\ LacksRequired(message) =>
                /\ pc' = "rec_check"
                /\ UNCHANGED << event_buffer, health_buffer, elapsed,
                                total_events_processed, total_health_processed,
                                store, written, committed, running, failed >>
           /\ (message.value.type = "object" /\ ~LacksRequired(message)
                 /\ ~Skipped(OpOf(message.value.fields)))
                => /\ message.topic = TOPIC_ACCESS_EVENT =>
                        event_buffer' = Append(event_buffer,
                          map_access_event(StripMeta(message.value.fields)))
                   /\ message.topic = TOPIC_CONNECTOR_HEALTH =>
                        health_buffer' = Append(health_buffer,
                          map_connector_health(StripMeta(message.value.fields))) ]_vars
  /\ [](RowIds \subseteq {"a1", "a2", "a_empty", "h1", "h2"})

\* an incomplete record was processed after a complete one, whose row is still
\* buffered
C12_Witness ==
  /\ pc = "rec_check"
  /\ lastCall = "process_message"
  /\ LacksRequired(message)
  /\ event_buffer # << >>

\* C13 (the claim as made): whatever record process_message is called with,
\* run() goes on to the check of line 230 and stays in its loop; a record that
\* is not a valid row changes neither buffer.
C13_NoRecordEndsLoop ==
  [][ ProcessCalled =>
        /\ pc' = "rec_check"
        /\ ~closed'
        /\ log[message.topic][message.offset] # "row"
             => UNCHANGED << event_buffer, health_buffer >> ]_vars

\* the operation marker as the claim reads it: __op where the record has that
\* key, else op, else none
MarkerOf(fields) ==
  IF "__op" \in DOMAIN fields THEN fields["__op"] ELSE Get(fields, "op")

BufferedARow ==
  event_buffer' # event_buffer \/ health_buffer' # health_buffer

FinalFlushOnce ==
  /\ (pc = "finally" /\ pc' # "finally")
       => pc' = IF BuffersEmpty THEN "close" ELSE "fin_flush"
  /\ (pc = "fin_flush" /\ FlushCalled)
       => pc' = IF lastCall' = "flush_true" THEN "fin_commit" ELSE "close"
  /\ (closed' /\ ~closed) => (pc = "close" /\ pc' = "done")

\* C15 (the claim as made): once run() has left its loop, the final flush is
\* attempted once if a buffer holds a row, the commit follows exactly if it
\* returned True, and consumer.close() is called in every case, after them.
C15_FinalFlushOnceAndAlwaysClosed ==
  [][ ~Restarted =>
        /\ FinalFlushOnce
        /\ (pc = "fin_commit" /\ CommitCalled) => pc' = "close"
        /\ (pc = "close" /\ pc' # "close") => closed' ]_vars

\* the part of C15 that holds: the flush and the commit are as claimed
FinalFlushOnceHolds == [][ ~Restarted => FinalFlushOnce ]_vars

\* the step in which the connection loop makes an attempt
ConnectAttempted == pc = "connect" /\ (pc' = "while" \/ attempt' = attempt + 1)

\* C17: the connection loop makes an attempt only while fewer than 10 have
\* failed, and sleeps retry_delay = 5 seconds after each failed one; run()
\* enters its message loop only from an attempt in which connect_kafka() and
\* connect_clickhouse() both returned True; it exits only when 10 attempts
\* have failed; and until then nothing is consumed, buffered, inserted or
\* committed.
C17_BoundedConnectRetries ==
  /\ [][ /\ ConnectAttempted => attempt < max_retries
         /\ (ConnectAttempted /\ pc' # "while")
              => (slept' = slept + 5 /\ lastCall' # "connect_true")
         /\ (pc = "connect" /\ pc' = "while")
              => (lastCall' = "connect_true" /\ clickhouse_client')
         /\ (pc = "connect" /\ pc' = "exited") => attempt' = 10
         /\ pc \in {"connect", "exited"}
              => UNCHANGED << log, position, committed, store, written,
                              event_buffer, health_buffer >> ]_vars
  /\ [](/\ attempt <= 10
        /\ pc \notin {"connect", "exited"}
             => lastCall \notin {"connect_kafka_false", "connect_clickhouse_false"}
        /\ pc = "connect" => slept = 5 * attempt
        /\ pc = "exited" =>
             /\ attempt = 10 /\ slept = 50
             /\ position = committed
             /\ BuffersEmpty /\ ~closed
             /\ \A t \in Topics : written[t] = << >>)

\* all ten attempts failed, the last one at ClickHouse, and the process exited
C17_Witness ==
  /\ pc = "exited"
  /\ attempt = max_retries
  /\ slept = 50
  /\ lastCall = "connect_clickhouse_false"

\* C18: the call of should_flush() changes nothing of the consumer: the two
\* buffers, the time since last_flush_time, the two counters and the running
\* flag are what they were, whichever value it returns.
C18_ShouldFlushChangesNothing ==
  [][ CheckCalled =>
        /\ lastCall' \in {"should_flush_true", "should_flush_false"}
        /\ UNCHANGED << event_buffer, health_buffer, elapsed,
                        total_events_processed, total_health_processed,
                        running, clickhouse_client, closed >> ]_vars

\* should_flush() has just returned True on the time trigger, with rows
\* buffered and after an earlier flush was counted
C18_Witness ==
  /\ pc = "idle_flush"
  /\ lastCall = "should_flush_true"
  /\ elapsed >= FlushInterval
  /\ ~BuffersEmpty
  /\ total_events_processed > 0

\* buffer `after` is `before`, or `before` with one row appended
SameOrOneAppended(before, after) ==
  \/ after = before
  \/ /\ Len(after) = Len(before) + 1
     /\ SubSeq(after, 1, Len(before)) = before

\* C19: process_message on a record of the access-event topic leaves
\* health_buffer as it was and event_buffer too, or appends one row to it; on a
\* record of the connector-health topic the same with the buffers exchanged;
\* on a record of any other topic it changes neither; and it never changes
\* last_flush_time or the counters.
C19_RoutedByTopic ==
  [][ ProcessCalled =>
        /\ UNCHANGED << elapsed, total_events_processed, total_health_processed >>
        /\ message.topic = TOPIC_ACCESS_EVENT =>
             /\ health_buffer' = health_buffer
             /\ SameOrOneAppended(event_buffer, event_buffer')
        /\ message.topic = TOPIC_CONNECTOR_HEALTH =>
             /\ event_buffer' = event_buffer
             /\ SameOrOneAppended(health_buffer, health_buffer')
        /\ message.topic \notin Topics =>
             UNCHANGED << event_buffer, health_buffer >> ]_vars

\* a record of the connector-health topic added its row to health_buffer and
\* left the access event buffered before it alone
C19_Witness ==
  /\ pc = "rec_check"
  /\ lastCall = "process_message"
  /\ message.topic = TOPIC_CONNECTOR_HEALTH
  /\ Len(health_buffer) = 1
  /\ Len(event_buffer) = 1
  /\ Keys(health_buffer[1]) = HealthColumns

\* C20: every row of event_buffer has the keys of AccessColumns, 18 of them,
\* in that order, and every row of health_buffer those of HealthColumns, 15
\* of them, none starting with '__'; so the column list flush_to_clickhouse
\* takes from the first row of a buffer is the same at every flush and is the
\* list of keys of every row of the batch.
C20_RowsHaveTheFixedColumns ==
  /\ Len(AccessColumns) = 18 /\ Cardinality(Range(AccessColumns)) = 18
  /\ Len(HealthColumns) = 15 /\ Cardinality(Range(HealthColumns)) = 15
  /\ (Range(AccessColumns) \cup Range(HealthColumns)) \cap DunderKeys = {}
  /\ \A i \in DOMAIN event_buffer :
       /\ Keys(event_buffer[i]) = AccessColumns
       /\ Keys(event_buffer[i]) = Keys(event_buffer[1])
  /\ \A i \in DOMAIN health_buffer :
       /\ Keys(health_buffer[i]) = HealthColumns
       /\ Keys(health_buffer[i]) = Keys(health_buffer[1])
  /\ \A r \in store[TOPIC_ACCESS_EVENT] : Keys(r) = AccessColumns
  /\ \A r \in store[TOPIC_CONNECTOR_HEALTH] : Keys(r) = HealthColumns

\* a batch of a record with every key and one with the required keys only,
\* which had metadata keys or none
C20_Witness ==
  /\ Len(event_buffer) = 2
  /\ event_buffer[1][1][2] = "a1"
  /\ event_buffer[2][1][2] = "a2"
  /\ event_buffer[2][15] = << "raw_payload", "" >>
  /\ event_buffer[2][4] = << "person_id", None >>
  /\ store[TOPIC_CONNECTOR_HEALTH] # {}

\* positions of run() inside `while self.running`, and in its finally block
LoopSites ==
  { "while", "poll", "got", "process", "rec_check", "rec_flush", "rec_failed",
    "rec_commit", "rec_next", "idle_check", "idle_flush", "idle_commit" }
ShutdownSites == { "finally", "fin_flush", "fin_commit", "close", "done", "aborted" }

\* C16: once a signal has set running to False while run() is in its loop,
\* run() reaches its finally block; a flush_to_clickhouse() that was about to
\* be made is made and, if it returns True, its commit() too, and a commit()
\* that was about to be made is made, all before consumer.close(), which is
\* called from the finally block only.
C16_SignalEndsLoopAfterPairCompletes ==
  /\ (~running /\ pc \in LoopSites) ~> (pc \in ShutdownSites)
  /\ (~running /\ pc \in {"rec_flush", "idle_flush"})
       ~> (lastCall \in {"flush_false", "commit"} /\ ~closed)
  /\ (~running /\ pc \in {"rec_commit", "idle_commit"})
       ~> (lastCall = "commit" /\ ~closed)
  /\ [][ /\ (pc \in FlushSites /\ pc' # pc)
              => lastCall' \in {"flush_true", "flush_false"}
         /\ (pc \in FlushSites /\ lastCall' = "flush_true" /\ pc' # pc)
              => pc' \in CommitSites
         /\ (pc \in CommitSites /\ pc' # pc) => lastCall' = "commit"
         /\ (running /\ ~running') => pc' = pc
         /\ (closed' /\ ~closed) => pc = "close" ]_vars
  /\ [](pc \in LoopSites => ~closed)

\* the signal came between a flush of the loop and its commit; the commit was
\* made and run() then left the loop for its finally block
C16_Witness ==
  /\ pc = "finally"
  /\ ~running
  /\ lastCall = "commit"
  /\ committed[TOPIC_ACCESS_EVENT] > 0
  /\ ~closed


(* ------------------------------ mapping.py ---------------------------- *)
\* C21: where a mapping returns a row, the same mapping called on that row
\* returns too, and returns an equal row.
C21_MappingIdempotent ==
  /\ mapPc = "end" /\ mapOut.status = "returned"
       => mapOut2.status = "returned" /\ mapOut2.row = mapOut.row
  /\ mapPc = "again" => MapCall(mapper, AsDict(mapOut.row)) = mapOut

\* the second call was made on a row in which defaults were filled in, and on
\* one that has a key of no column left out
C21_Witness ==
  /\ mapPc = "end" /\ mapOut2.status = "returned"
  /\ mapper = "map_connector_health"
  /\ "error_count_1h" \notin DOMAIN mapArg
  /\ mapArg["latency_ms"] # mapArg["events_per_minute"]

\* the default of each optional key, as the functions' .get() calls give it
DefaultOfKey(k) ==
  CASE k = "raw_payload" -> ""
    [] k \in { "suspicious_flag", "error_count_1h" } -> "0"
    [] k = "suspicious_score" -> "0.0"
    [] OTHER -> None

\* C22: a call raises KeyError exactly if the dict lacks one of the required
\* keys (11 for map_access_event, 8 for map_connector_health); a row returned
\* has, for every column, the dict's value where the dict has the key and the
\* key's default where it has not.
C22_KeyErrorIffRequiredAbsent ==
  /\ Cardinality(AccessRequired) = 11 /\ Cardinality(HealthRequired) = 8
  /\ AccessRequired =
       { "event_id", "tenant_id", "event_time", "badge_id", "site_id",
         "location_id", "direction", "result", "event_type", "pacs_source",
         "pacs_event_id" }
  /\ mapOut.status # "not_called" =>
       /\ mapOut.status = "KeyError"
            <=> \E k \in RequiredKeys(mapper) : k \notin DOMAIN mapArg
       /\ mapOut.status = "returned" =>
            /\ Len(mapOut.row) = Len(ColumnsOf(mapper))
            /\ \A i \in DOMAIN mapOut.row :
                 LET k == ColumnsOf(mapper)[i]
                 IN  /\ mapOut.row[i][1] = k
                     /\ mapOut.row[i][2] =
                          IF k \in DOMAIN mapArg THEN mapArg[k]
                          ELSE DefaultOfKey(k)

\* map_access_event returned on a dict with the required keys only
C22_Witness ==
  /\ mapper = "map_access_event"
  /\ mapOut.status = "returned"
  /\ DOMAIN mapArg = AccessRequired


(* --------------------------- _shutdown_handler ------------------------ *)
\* C23: a step in which running goes from True to False (the handler ran)
\* changes nothing else: not the buffers, the time of the last flush, the
\* counters, the committed offsets, nor where run() is; and the two buffers
\* change only in a step that is the call of process_message or of
\* flush_to_clickhouse (or the start of a new process).
C23_SignalChangesOnlyRunning ==
  [][ /\ running /\ ~running' =>
           UNCHANGED << pc, attempt, slept, clickhouse_client, closed,
                        event_buffer, health_buffer, elapsed,
                        total_events_processed, total_health_processed,
                        config, pollLeft, log, position, committed, message,
                        store, written, lastInserts, lastCall, failed,
                        quietFor >>
      /\ << event_buffer, health_buffer >>' # << event_buffer, health_buffer >>
           => ProcessCalled \/ FlushCalled \/ Restarted ]_vars

\* the signal came while run() was in its loop with rows in both buffers
C23_Witness ==
  /\ ~running
  /\ pc \in LoopSites
  /\ event_buffer # << >>
  /\ health_buffer # << >>


(* ------------------------ commit and the buffers ---------------------- *)
\* C25: whenever run() is about to call consumer.commit(), both buffers are
\* empty; and a flush_to_clickhouse() that returns True leaves both buffers
\* empty, having found them empty and made no insert, or having made, for
\* each buffer that had rows, one insert of exactly those rows that returned.
C25_CommitWithBuffersEmpty ==
  /\ [](pc \in CommitSites => BuffersEmpty)
  /\ [][ FlushCalled /\ lastCall' = "flush_true" =>
           /\ BuffersEmpty'
           /\ \A i \in DOMAIN lastInserts' : lastInserts'[i].ok
           /\ Inserted(lastInserts', "fact_access_events") = event_buffer
           /\ Inserted(lastInserts', "fact_connector_health") = health_buffer
           /\ Len(lastInserts') =
                (IF event_buffer = << >> THEN 0 ELSE 1)
                  + (IF health_buffer = << >> THEN 0 ELSE 1) ]_vars

\* run() is about to commit after a flush that inserted both buffers, in a
\* run that had written event rows before
C25_Witness ==
  /\ pc \in CommitSites
  /\ Len(lastInserts) = 2
  /\ Len(written[TOPIC_ACCESS_EVENT]) > Len(lastInserts[1].rows)


(* ------------------------- the rows of one run ------------------------ *)
TopicOfTable(table) ==
  IF table = "fact_access_events" THEN TOPIC_ACCESS_EVENT
  ELSE TOPIC_CONNECTOR_HEALTH

NoRepeats(seq) ==
  \A i, j \in DOMAIN seq : i # j => seq[i] # seq[j]

\* C26: in one run, the inserts that returned hold no row twice, and no
\* insert call, returning or raising, is given a row that an earlier insert
\* of the run has written; so the flush that follows one in which the event
\* insert returned and the health insert raised sends the health rows only,
\* where no event row was buffered in between.
C26_NoRowInsertedTwice ==
  /\ [](\A t \in Topics : NoRepeats(written[t]))
  /\ [][ FlushCalled =>
           /\ \A i \in DOMAIN lastInserts' :
                Range(lastInserts'[i].rows)
                  \cap Range(written[TopicOfTable(lastInserts'[i].table)]) = {}
           /\ failed = "events_written" /\ event_buffer = << >> =>
                \A i \in DOMAIN lastInserts' :
                  /\ lastInserts'[i].table = "fact_connector_health"
                  /\ lastInserts'[i].rows = health_buffer ]_vars

\* a flush has inserted health rows only and returned True, in a run that
\* had written event rows and committed nothing: those were written by a
\* flush whose health insert raised
C26_Witness ==
  /\ lastCall = "flush_true"
  /\ Len(lastInserts) = 1
  /\ lastInserts[1].table = "fact_connector_health"
  /\ written[TOPIC_ACCESS_EVENT] # << >>
  /\ committed = [t \in Topics |-> 0]

\* the offsets of the records of topic t delivered so far that
\* process_message maps to a row, in delivery order
AcceptedOffsets(t) ==
  SelectSeq([i \in 1..position[t] |-> i], LAMBDA i : log[t][i] = "row")

IsPrefix(p, seq) ==
  Len(p) <= Len(seq) /\ SubSeq(seq, 1, Len(p)) = p

BufferOf(t) == IF t = TOPIC_ACCESS_EVENT THEN event_buffer ELSE health_buffer

\* C27: in one run and for each topic, the rows written by the inserts that
\* returned, in the order written, followed by the rows still buffered, are
\* the first of the topic's delivered records that map to a row, in delivery
\* order.
C27_WrittenInDeliveryOrder ==
  \A t \in Topics :
    /\ IsPrefix(written[t], AcceptedOffsets(t))
    /\ IsPrefix(written[t] \o BufferOf(t), AcceptedOffsets(t))

\* two event rows were written, with a record that maps to no row delivered
\* between them
C27_Witness ==
  /\ written[TOPIC_ACCESS_EVENT] = << 1, 3 >>
  /\ log[TOPIC_ACCESS_EVENT][2] = "delete"
  /\ lastCall = "flush_true"


(* ----------------------- a commit that raises ------------------------- *)
LoopCommitSites == { "rec_commit", "idle_commit" }

\* run() has left its loop with running still True, its latest call was
\* consumer.commit() and the group's offsets are not the consumer's
\* positions: the commit of line 233 or 244 raised
LoopCommitRaised ==
  /\ pc \in { "finally", "close", "done" }
  /\ running
  /\ lastCall = "commit"
  /\ committed # position

\* C28: a commit() of the loop that leaves the offsets uncommitted takes
\* run() to its finally block, with the offsets as they were, both buffers
\* empty and the rows of the flush before it written, all at offsets beyond
\* the committed ones (where a new consumer starts); from there run() makes
\* no flush and no other commit, and calls consumer.close().
C28_CommitFailureEndsLoop ==
  /\ [][ /\ (pc \in LoopCommitSites /\ CommitCalled /\ committed' # position')
              => /\ pc' = "finally"
                 /\ committed' = committed
                 /\ BuffersEmpty'
                 /\ \A i \in DOMAIN lastInserts :
                      LET t == TopicOfTable(lastInserts[i].table)
                      IN  /\ lastInserts[i].ok
                          /\ Range(lastInserts[i].rows) \subseteq Range(written'[t])
                          /\ \A r \in Range(lastInserts[i].rows) :
                               r > committed'[t]
         /\ LoopCommitRaised
              => /\ committed' = committed
                 /\ ~FlushCalled /\ ~CommitCalled
                 /\ UNCHANGED << store, written, event_buffer, health_buffer >>
                 /\ pc' \in { "finally", "close", "done" } ]_vars
  /\ LoopCommitRaised ~> (pc = "done" /\ closed)

\* the commit after a flush that wrote an event row raised, and run() has
\* closed the consumer with that row's offset uncommitted
C28_Witness ==
  /\ LoopCommitRaised
  /\ pc = "done" /\ closed
  /\ written[TOPIC_ACCESS_EVENT] # << >>
  /\ committed[TOPIC_ACCESS_EVENT] < written[TOPIC_ACCESS_EVENT][1]
  /\ BuffersEmpty


(* --------------------------- generator.py ------------------------------ *)
CallsOf(w) == Len(writer_calls[w])

\* C24: the writer is chosen once, when main() starts, by the mode: with
\* 'cdc' every write_access_event and write_connector_health call is made on
\* the MySQL writer and none on the ClickHouse writer, with 'direct' the
\* other way round; with any other mode, and when the writer's constructor
\* raised, the process has exited with status 1, no event was generated and
\* no write call made.
C24_OneWriterChosenAtStartup ==
  /\ [](/\ ingest_mode = "cdc" =>
             writer \in { None, "MySQLWriter" } /\ CallsOf("ClickHouseWriter") = 0
        /\ ingest_mode = "direct" =>
             writer \in { None, "ClickHouseWriter" } /\ CallsOf("MySQLWriter") = 0
        /\ (ingest_mode \notin { "cdc", "direct" } \/ connected = "failed") =>
             /\ genPc \in { "init", "exited" }
             /\ writer = None
        /\ (genPc \in { "init", "exited" }) =>
             generated = 0 /\ CallsOf("MySQLWriter") + CallsOf("ClickHouseWriter") = 0
        /\ genPc = "exited" => exit_status = 1
        /\ exit_status = 1 => genPc = "exited"
        /\ generated > 0 => writer # None /\ connected = "ok"
        /\ CallsOf("MySQLWriter") + CallsOf("ClickHouseWriter")
             <= generated * (1 + Len(CONNECTORS)))
  /\ [][ /\ writer # None => writer' = writer
         /\ writer' # writer => genPc = "init"
         /\ (genPc = "init" /\ genPc' # "init"
               /\ (ingest_mode \notin { "cdc", "direct" } \/ connected' = "failed"))
              => genPc' = "exited" /\ exit_status' = 1 ]_vars

\* in 'direct' mode events and health records were written, one write
\* having raised, and main() has ended
C24_Witness ==
  /\ ingest_mode = "direct"
  /\ genPc = "done"
  /\ generated = 2
  /\ \E i \in DOMAIN writer_calls["ClickHouseWriter"] :
       writer_calls["ClickHouseWriter"][i].kind = "connector_health"
  /\ \E i \in DOMAIN writer_calls["ClickHouseWriter"] :
       ~writer_calls["ClickHouseWriter"][i].ok


(* ----------------------- datagen/trickle_simple.py -------------------- *)
\* the step in which update_access_request is called on the next request
UpdateCalled ==
  /\ trkPc = "update"
  /\ reqIdx <= Len(PendingSlice(pending))
  /\ (reqIdx' = reqIdx + 1 \/ trkPc' = "while")

\* the step in which fetch_pending_requests returns
FetchCalled == trkPc = "update_check" /\ trkPc' = "update"

WorkflowEdges ==
  { << "submitted", "pending_approval" >>, << "pending_approval", "approved" >>,
    << "pending_approval", "rejected" >>, << "approved", "provisioned" >> }

TerminalStatuses == { "rejected", "provisioned" }

\* C29: a call of update_access_request changes no other request's row, and
\* leaves the request's row as it was (returning None, or raising) or moves
\* its status along one of the four edges, returning the new status; the
\* row's approved_at, rejected_at and provisioned_at are what they were,
\* but for the one of the status just entered, which is the time of the call.
\* No step sets one of the three at another moment.
C29_UpdateFollowsWorkflowEdges ==
  [][ /\ UpdateCalled =>
           LET id == PendingSlice(pending)[reqIdx].request_id
               before == requests[id]
               after == requests'[id]
           IN  /\ Len(requests') = Len(requests)
               /\ \A i \in DOMAIN requests : i # id => requests'[i] = requests[i]
               /\ \/ /\ after = before
                     /\ new_status' \in { None, "raised" }
                  \/ /\ << before.status, after.status >> \in WorkflowEdges
                     /\ new_status' = after.status
                     /\ after.approved_at =
                          IF after.status = "approved"
                            THEN Now(batch_count) ELSE before.approved_at
                     /\ after.rejected_at =
                          IF after.status = "rejected"
                            THEN Now(batch_count) ELSE before.rejected_at
                     /\ after.provisioned_at =
                          IF after.status = "provisioned"
                            THEN Now(batch_count) ELSE before.provisioned_at
      /\ \A i \in DOMAIN requests :
           /\ requests'[i].approved_at # requests[i].approved_at =>
                UpdateCalled /\ requests'[i].status = "approved"
                  /\ requests[i].status = "pending_approval"
           /\ requests'[i].rejected_at # requests[i].rejected_at =>
                UpdateCalled /\ requests'[i].status = "rejected"
                  /\ requests[i].status = "pending_approval"
           /\ requests'[i].provisioned_at # requests[i].provisioned_at =>
                UpdateCalled /\ requests'[i].status = "provisioned"
                  /\ requests[i].status = "approved" ]_vars

\* a request approved in one cycle was provisioned in a later one, and kept
\* the time of its approval
C29_Witness ==
  /\ requests # << >>
  /\ requests[1].status = "provisioned"
  /\ requests[1].approved_at # NoTime
  /\ requests[1].provisioned_at > requests[1].approved_at
  /\ new_status = "provisioned"

\* C30: a row is added to the table only as a new request, in status
\* 'submitted' and with none of the three timestamps; no request in status
\* 'rejected' or 'provisioned' is in the result of a fetch, and no step
\* changes the row of one; requests are fetched and updated only in a batch
\* whose number is a multiple of 3, at most 3 of them in a batch, and no
\* request twice.
C30_NewSubmittedTerminalLeftAlone ==
  /\ [][ /\ requests' # requests /\ ~UpdateCalled =>
              /\ Len(requests') = Len(requests) + 1
              /\ SubSeq(requests', 1, Len(requests)) = requests
              /\ requests'[Len(requests')].status = "submitted"
              /\ requests'[Len(requests')].approved_at = NoTime
              /\ requests'[Len(requests')].rejected_at = NoTime
              /\ requests'[Len(requests')].provisioned_at = NoTime
         /\ FetchCalled =>
              /\ batch_count % 3 = 0
              /\ \A j \in DOMAIN pending' :
                   requests[pending'[j].request_id].status \notin TerminalStatuses
              /\ \A j, k \in DOMAIN pending' :
                   j # k => pending'[j].request_id # pending'[k].request_id
         /\ UpdateCalled =>
              /\ batch_count % 3 = 0
              /\ reqIdx <= 3
              /\ requests[PendingSlice(pending)[reqIdx].request_id].status
                   \notin TerminalStatuses
         /\ \A i \in DOMAIN requests :
              requests[i].status \in TerminalStatuses
                => i \in DOMAIN requests' /\ requests'[i] = requests[i] ]_vars
  /\ [](updates <= 3 /\ (trkPc = "update" => batch_count % 3 = 0))

\* in the ninth batch four requests were fetched, the oldest request, rejected
\* in the sixth batch, not among them, and three of the four were updated
C30_Witness ==
  /\ batch_count = 9
  /\ trkPc = "while"
  /\ Len(requests) = 5
  /\ requests[1].status = "rejected" /\ requests[1].rejected_at = 6
  /\ Len(pending) = 4
  /\ pending[1].request_id = 2
  /\ updates = 3
  /\ reqIdx = 4
  /\ requests[5].status = "submitted"

====
